---- MODULE Spec2Model ----
(***************************************************************************)
(* OHLCVDFAccessor.plot (vectorbt/ohlcv_accessors.py) as a state machine.  *)
(*                                                                         *)
(* State: the process-wide settings, the accessor (its table and its       *)
(* column-name mapping, fixed at construction), the figure the caller      *)
(* holds, the number of figures allocated so far and the record of the     *)
(* last call (receiver, arguments as passed, outcome).  Plot is one whole  *)
(* call of plot(): it either returns a figure or raises, and in both cases *)
(* leaves the caller's figure as the code left it at that point.           *)
(***************************************************************************)
EXTENDS Integers, Sequences, FiniteSets, TLC

VARIABLES settings, accessor, fig, nfigs, last

vars == <<settings, accessor, fig, nfigs, last>>

(***************************************************************************)
(* Bounds of the model.                                                    *)
(***************************************************************************)
\* figures that plot() may allocate in one behaviour
MaxFigs == 2
\* a supplied figure is passed to plot() only while it holds fewer traces
MaxTraces == 2
\* rows of a table whose cell values are enumerated
MaxRows == 2

(***************************************************************************)
(* Python values.  Every value carries its type, so that isinstance() and  *)
(* comparisons between values of different types are defined.              *)
(***************************************************************************)
None == [tag |-> "None"]
PyBool(b) == [tag |-> "bool", b |-> b]
PyInt(n) == [tag |-> "int", n |-> n]
PyStr(s) == [tag |-> "str", s |-> s]
Color(c) == [tag |-> "color", c |-> c]
\* a float, kept in tenths: Tenths(5) is 0.5
Tenths(n) == [tag |-> "float", tenths |-> n]
Type(c) == [tag |-> "type", c |-> c]
Array(a) == [tag |-> "array", a |-> a]
Dict(d) == [tag |-> "dict", d |-> d]

\* isinstance(v, str), isinstance(v, dict)
IsStr(v) == v.tag = "str"
IsDict(v) == v.tag = "dict"

\* {} : the keyword bag with no key
EmptyDict == [k \in {} |-> None]

(***************************************************************************)
(* Strings are sequences of characters: <<"O", "p", "e", "n">> is "Open". *)
(***************************************************************************)
\* the lower-case letter of each upper-case letter, and the converse
ToLower ==
    [A |-> "a", B |-> "b", C |-> "c", D |-> "d", E |-> "e", F |-> "f", G
     |-> "g", H |-> "h", I |-> "i", J |-> "j", K |-> "k", L |-> "l", M
     |-> "m", N |-> "n", O |-> "o", P |-> "p", Q |-> "q", R |-> "r", S
     |-> "s", T |-> "t", U |-> "u", V |-> "v", W |-> "w", X |-> "x", Y
     |-> "y", Z |-> "z"]
ToUpper ==
    [a |-> "A", b |-> "B", c |-> "C", d |-> "D", e |-> "E", f |-> "F", g
     |-> "G", h |-> "H", i |-> "I", j |-> "J", k |-> "K", l |-> "L", m
     |-> "M", n |-> "N", o |-> "O", p |-> "P", q |-> "Q", r |-> "R", s
     |-> "S", t |-> "T", u |-> "U", v |-> "V", w |-> "W", x |-> "X", y
     |-> "Y", z |-> "Z"]

\* the word of the given lower-case letters with the positions in caps in
\* upper case: S(<<"o", "p", "e", "n">>, {1}) is "Open"
S(letters, caps) ==
    [i \in 1..Len(letters) |->
        IF i \in caps THEN ToUpper[letters[i]] ELSE letters[i]]

\* str.lower(): every upper-case letter replaced by its lower-case letter
Lower(s) ==
    [i \in DOMAIN s |-> IF s[i] \in DOMAIN ToLower THEN ToLower[s[i]] ELSE s[i]]

L_open == <<"o", "p", "e", "n">>
L_high == <<"h", "i", "g", "h">>
L_low == <<"l", "o", "w">>
L_close == <<"c", "l", "o", "s", "e">>
L_volume == <<"v", "o", "l", "u", "m", "e">>
L_ohlc == <<"o", "h", "l", "c">>
L_candlestick == <<"c", "a", "n", "d", "l", "e", "s", "t", "i", "c", "k">>
L_line == <<"l", "i", "n", "e">>
L_date == <<"d", "a", "t", "e">>
L_vol == <<"v", "o", "l">>
L_custom == <<"m", "y">>

\* the string literals of plot()
lit_ohlc == S(L_ohlc, {})
lit_OHLC == S(L_ohlc, {1, 2, 3, 4})
lit_candlestick == S(L_candlestick, {})
lit_Candlestick == S(L_candlestick, {1})
lit_Volume == S(L_volume, {1})

Roles == {"open", "high", "low", "close", "volume"}
RequiredRoles == <<"open", "high", "low", "close">>

(***************************************************************************)
(* Collaborators of plot() that live outside ohlcv_accessors.py.           *)
(***************************************************************************)
RECURSIVE merge_dicts(_, _)
\* vectorbt.utils.config.merge_dicts for two bags: keys only in the base are
\* kept, a key of the override wins, two nested bags are merged recursively
merge_dicts(base, override) ==
    [k \in DOMAIN base \cup DOMAIN override |->
        IF k \notin DOMAIN override THEN base[k]
        ELSE IF k \in DOMAIN base /\ IsDict(base[k]) /\ IsDict(override[k])
             THEN Dict(merge_dicts(base[k].d, override[k].d))
             ELSE override[k]]

\* vectorbt.utils.figure.make_figure(): a figure of one panel
make_figure(id) ==
    [id |-> id, rows |-> 1, cols |-> 1, shared_xaxes |-> FALSE,
     vertical_spacing |-> None, row_heights |-> <<>>,
     layout |-> EmptyDict, data |-> <<>>]

\* vectorbt.utils.figure.make_subplots(...): a figure of rows x cols panels;
\* row heights are kept in tenths (0.7 is 7)
make_subplots(id, rows, cols, shared_xaxes, vertical_spacing, row_heights) ==
    [id |-> id, rows |-> rows, cols |-> cols, shared_xaxes |-> shared_xaxes,
     vertical_spacing |-> vertical_spacing, row_heights |-> row_heights,
     layout |-> EmptyDict, data |-> <<>>]

\* Figure.update_layout(**kwargs): the layout updated recursively
update_layout(f, kwargs) ==
    [f EXCEPT !.layout = merge_dicts(@, kwargs)]

\* BaseTraceType.update(**kwargs): the trace's properties updated recursively
trace_update(trace, kwargs) ==
    [trace EXCEPT !.props = merge_dicts(@, kwargs)]

\* Figure.add_trace(trace, **kwargs): the trace appended, placed by kwargs
add_trace(f, trace, kwargs) ==
    [f EXCEPT !.data = Append(@, [trace EXCEPT !.placement = kwargs])]

\* a trace constructor called with keyword arguments
NewTrace(ctor, kwargs) ==
    [type |-> ctor, props |-> kwargs, placement |-> EmptyDict]

\* list.index(x): the first position of x, 0 standing for ValueError
ListIndex(list, x) ==
    IF \E i \in DOMAIN list : list[i] = x
    THEN CHOOSE i \in DOMAIN list :
            list[i] = x /\ \A j \in DOMAIN list : list[j] = x => i <= j
    ELSE 0

(***************************************************************************)
(* The accessor.                                                           *)
(***************************************************************************)
\* a DataFrame: column labels, the columns' values, the index
DataFrame(columns, values, index) ==
    [columns |-> columns, values |-> values, index |-> index]

\* obj.iloc[:, j - 1]
Iloc(obj, j) == obj.values[j]

\* OHLCVDFAccessor(obj, column_names)
NewAccessor(obj, column_names) ==
    [obj |-> obj, column_names |-> column_names]

\* column_names = ohlcv_cfg['column_names'] if self.column_names is None ...
ColumnNames(self, cfg) ==
    IF self.column_names = None THEN cfg.ohlcv.column_names
    ELSE self.column_names

\* df_column_names = self.obj.columns.str.lower().tolist()
DfColumnNames(obj) ==
    [j \in DOMAIN obj.columns |-> Lower(obj.columns[j])]

\* df_column_names.index(column_names[role].lower())
RoleIndexNoLower(df_column_names, column_names, role) ==
    ListIndex(df_column_names, column_names[role])
RoleIndex(df_column_names, column_names, role) ==
    ListIndex(df_column_names, Lower(column_names[role]))

\* if display_volume is None:
\*     display_volume = column_names['volume'].lower() in df_column_names
DisplayVolumeExactCase(display_volume, df_column_names, column_names) ==
    IF display_volume = None
    THEN \E j \in DOMAIN df_column_names :
            df_column_names[j] = column_names["volume"]
    ELSE display_volume.b
DisplayVolume(display_volume, df_column_names, column_names) ==
    IF display_volume = None
    THEN \E j \in DOMAIN df_column_names :
            df_column_names[j] = Lower(column_names["volume"])
    ELSE display_volume.b

\* if display_volume: ohlc_add_trace_kwargs = merge_dicts(dict(row=1, col=1), ...)
OhlcAddTraceKwargsCallerLoses(display_volume, ohlc_add_trace_kwargs) ==
    IF display_volume
    THEN merge_dicts(ohlc_add_trace_kwargs, [row |-> PyInt(1), col |-> PyInt(1)])
    ELSE ohlc_add_trace_kwargs
OhlcAddTraceKwargs(display_volume, ohlc_add_trace_kwargs) ==
    IF display_volume
    THEN merge_dicts([row |-> PyInt(1), col |-> PyInt(1)], ohlc_add_trace_kwargs)
    ELSE ohlc_add_trace_kwargs

\* if display_volume: volume_add_trace_kwargs = merge_dicts(dict(row=2, col=1), ...)
VolumeAddTraceKwargs(display_volume, volume_add_trace_kwargs) ==
    IF display_volume
    THEN merge_dicts([row |-> PyInt(2), col |-> PyInt(1)], volume_add_trace_kwargs)
    ELSE volume_add_trace_kwargs

\* the first of open, high, low, close that df_column_names.index() does not
\* find, "" when all four are found
RECURSIVE FirstMissingFrom(_, _, _)
FirstMissingFrom(k, df_column_names, column_names) ==
    IF k > Len(RequiredRoles) THEN ""
    ELSE IF RoleIndex(df_column_names, column_names, RequiredRoles[k]) = 0
         THEN RequiredRoles[k]
         ELSE FirstMissingFrom(k + 1, df_column_names, column_names)
FirstMissing(df_column_names, column_names) ==
    FirstMissingFrom(1, df_column_names, column_names)

\* make_subplots(rows=2, cols=1, shared_xaxes=True, vertical_spacing=0,
\* row_heights=[0.7, 0.3]) if display_volume else make_figure()
Allocate(id, display_volume) ==
    IF display_volume
    THEN make_subplots(id, 2, 1, TRUE, PyInt(0), <<7, 3>>)
    ELSE make_figure(id)

\* the two fig.update_layout(...) calls that follow the allocation
Baseline(f, display_volume) ==
    LET f1 == update_layout(f,
                [showlegend |-> PyBool(TRUE),
                 xaxis |-> Dict([rangeslider_visible |-> PyBool(FALSE),
                                 showgrid |-> PyBool(TRUE)]),
                 yaxis |-> Dict([showgrid |-> PyBool(TRUE)])])
    IN  IF display_volume
        THEN update_layout(f1,
                [xaxis2 |-> Dict([showgrid |-> PyBool(TRUE)]),
                 yaxis2 |-> Dict([showgrid |-> PyBool(TRUE)]),
                 bargap |-> PyInt(0)])
        ELSE f1

\* the figure after "Set up figure" and fig.update_layout(**layout_kwargs)
SetUpFigureFreshAlways(f, id, display_volume, layout_kwargs) ==
    update_layout(Baseline(Allocate(id, display_volume), display_volume),
                  layout_kwargs)
SetUpFigureBaselineAlways(f, id, display_volume, layout_kwargs) ==
    update_layout(
        Baseline(IF f = None THEN Allocate(id, display_volume) ELSE f,
                 display_volume),
        layout_kwargs)
SetUpFigure(f, id, display_volume, layout_kwargs) ==
    update_layout(
        IF f = None
        THEN Baseline(Allocate(id, display_volume), display_volume)
        ELSE f,
        layout_kwargs)

\* plot_type resolved: [ok, name, obj]; ok is FALSE where the code raises
\* ValueError("Plot type can be either 'OHLC' or 'Candlestick'")
PlotType(plot_type, cfg) ==
    LET pt == IF plot_type = None THEN cfg.ohlcv.plot_type ELSE plot_type
    IN  IF IsStr(pt)
        THEN IF Lower(pt.s) = lit_ohlc
             THEN [ok |-> TRUE, name |-> PyStr(lit_OHLC), obj |-> Type("go.Ohlc")]
             ELSE IF Lower(pt.s) = lit_candlestick
             THEN [ok |-> TRUE, name |-> PyStr(lit_Candlestick),
                   obj |-> Type("go.Candlestick")]
             ELSE [ok |-> FALSE, name |-> pt, obj |-> None]
        ELSE [ok |-> TRUE, name |-> pt, obj |-> pt]

\* ohlc = plot_obj(x=..., open=..., ..., name=plot_type, increasing=..., decreasing=...)
\* ohlc.update(**ohlc_kwargs)
OhlcTrace(self, pt, idx, cfg, ohlc_kwargs) ==
    trace_update(
        NewTrace(pt.obj,
            [x |-> Array(self.obj.index),
             open |-> Array(Iloc(self.obj, idx["open"])),
             high |-> Array(Iloc(self.obj, idx["high"])),
             low |-> Array(Iloc(self.obj, idx["low"])),
             close |-> Array(Iloc(self.obj, idx["close"])),
             name |-> pt.name,
             increasing |-> Dict([line |-> Dict(
                 [color |-> cfg.plotting.color_schema.increasing])]),
             decreasing |-> Dict([line |-> Dict(
                 [color |-> cfg.plotting.color_schema.decreasing])])]),
        ohlc_kwargs)

\* marker_colors = np.empty(volume.shape, dtype=object), then the three
\* masked assignments
MarkerColorsNoGray(volume, open, close, color_schema) ==
    [i \in DOMAIN volume |->
        IF close[i] - open[i] > 0 THEN color_schema.increasing
        ELSE IF close[i] - open[i] < 0 THEN color_schema.decreasing
        ELSE None]
MarkerColors(volume, open, close, color_schema) ==
    LET m0 == [i \in DOMAIN volume |-> None]
        m1 == [i \in DOMAIN m0 |->
                IF close[i] - open[i] > 0 THEN color_schema.increasing
                ELSE m0[i]]
        m2 == [i \in DOMAIN m1 |->
                IF close[i] - open[i] = 0 THEN color_schema.gray ELSE m1[i]]
    IN  [i \in DOMAIN m2 |->
            IF close[i] - open[i] < 0 THEN color_schema.decreasing
            ELSE m2[i]]

\* volume_bar = go.Bar(...); volume_bar.update(**volume_kwargs)
VolumeBar(self, idx, vol, cfg, volume_kwargs) ==
    LET volume == Iloc(self.obj, vol)
        marker_colors == MarkerColors(volume, Iloc(self.obj, idx["open"]),
                            Iloc(self.obj, idx["close"]),
                            cfg.plotting.color_schema)
    IN  trace_update(
            NewTrace(Type("go.Bar"),
                [x |-> Array(self.obj.index),
                 y |-> Array(volume),
                 marker |-> Dict([color |-> Array(marker_colors),
                                  line_width |-> PyInt(0)]),
                 opacity |-> Tenths(5),
                 name |-> PyStr(lit_Volume)]),
            volume_kwargs)

(***************************************************************************)
(* plot(): the outcome of one call.  status is "returned" or the error     *)
(* raised (both errors are Python's ValueError: list.index() raises the    *)
(* missing-column one, plot() itself the plot-type one); role is the role  *)
(* whose column was not found; fig is the figure the call worked on, as    *)
(* the call left it (None when the call raised before it had one).         *)
(***************************************************************************)
Outcome(status, role, f) == [status |-> status, role |-> role, fig |-> f]

\* where the call ends: f0 is the fig argument, f1 the figure after set-up
\* and layout update, f2 after the price trace, f3 after the volume trace
ExitLookupAfterSetUp(missing, pt_ok, display_volume, vol, f0, f1, f2, f3) ==
    IF missing # "" THEN Outcome("MissingColumnError", missing, f1)
    ELSE IF ~pt_ok THEN Outcome("InvalidPlotTypeError", "", f1)
    ELSE IF ~display_volume THEN Outcome("returned", "", f2)
    ELSE IF vol = 0 THEN Outcome("MissingColumnError", "volume", f2)
    ELSE Outcome("returned", "", f3)
ExitTypeCheckAfterTrace(missing, pt_ok, display_volume, vol, f0, f1, f2, f3) ==
    IF missing # "" THEN Outcome("MissingColumnError", missing, f0)
    ELSE IF ~pt_ok THEN Outcome("InvalidPlotTypeError", "", f2)
    ELSE IF ~display_volume THEN Outcome("returned", "", f2)
    ELSE IF vol = 0 THEN Outcome("MissingColumnError", "volume", f2)
    ELSE Outcome("returned", "", f3)
Exit(missing, pt_ok, display_volume, vol, f0, f1, f2, f3) ==
    IF missing # "" THEN Outcome("MissingColumnError", missing, f0)
    ELSE IF ~pt_ok THEN Outcome("InvalidPlotTypeError", "", f1)
    ELSE IF ~display_volume THEN Outcome("returned", "", f2)
    ELSE IF vol = 0 THEN Outcome("MissingColumnError", "volume", f2)
    ELSE Outcome("returned", "", f3)

PlotCall(self, a, cfg, id) ==
    LET column_names == ColumnNames(self, cfg)
        df_column_names == DfColumnNames(self.obj)
        display_volume ==
            DisplayVolume(a.display_volume, df_column_names, column_names)
        ohlc_add == OhlcAddTraceKwargs(display_volume, a.ohlc_add_trace_kwargs)
        volume_add ==
            VolumeAddTraceKwargs(display_volume, a.volume_add_trace_kwargs)
        missing == FirstMissing(df_column_names, column_names)
        idx == [r \in Roles |-> RoleIndex(df_column_names, column_names, r)]
        f1 == SetUpFigure(a.fig, id, display_volume, a.layout_kwargs)
        pt == PlotType(a.plot_type, cfg)
        f2 == add_trace(f1, OhlcTrace(self, pt, idx, cfg, a.ohlc_kwargs),
                        ohlc_add)
        f3 == add_trace(f2,
                VolumeBar(self, idx, idx["volume"], cfg, a.volume_kwargs),
                volume_add)
    IN  [display_volume |-> display_volume, plot_type |-> pt.name,
         out |-> Exit(missing, pt.ok, display_volume, idx["volume"],
                      a.fig, f1, f2, f3)]

\* one call of accessor.plot() by the caller, with fig=None or with the
\* figure the caller holds.  A figure that plot() allocates gets the next
\* identity; the caller holds the returned figure from then on.
Plot(args, supplied) ==
    /\ supplied => fig # None /\ Len(fig.data) < MaxTraces
    /\ ~supplied => nfigs < MaxFigs
    /\ LET a == [args EXCEPT !.fig = IF supplied THEN fig ELSE None]
       IN \E r \in {PlotCall(accessor, a, settings, nfigs + 1)} :
           /\ last' = [self |-> accessor, args |-> a, status |-> r.out.status,
                       role |-> r.out.role, fig |-> r.out.fig,
                       display_volume |-> r.display_volume,
                       plot_type |-> r.plot_type,
                       created |-> (~supplied /\ r.out.fig # None)]
           /\ nfigs' = IF ~supplied /\ r.out.fig # None THEN nfigs + 1
                       ELSE nfigs
           /\ fig' = IF r.out.status = "returned" \/ (supplied /\ r.out.fig # None)
                     THEN r.out.fig ELSE fig
    /\ UNCHANGED <<settings, accessor>>

(***************************************************************************)
(* Inputs.                                                                 *)
(***************************************************************************)
\* the values of column j of a table of n rows: distinct from column to column
Cells(ncols, n) == [j \in 1..ncols |-> [i \in 1..n |-> 10 * j + i]]

\* a table of n rows with the given column labels
Frame(columns, n) ==
    DataFrame(columns, Cells(Len(columns), n), [i \in 1..n |-> i])

\* settings['ohlcv'] and settings['plotting'] as vectorbt ships them
DefaultColumnNames ==
    [open |-> S(L_open, {1}), high |-> S(L_high, {1}), low |-> S(L_low, {1}),
     close |-> S(L_close, {1}), volume |-> S(L_volume, {1})]
DefaultColorSchema ==
    [increasing |-> Color("#1b9e76"), decreasing |-> Color("#d95f02"),
     gray |-> Color("#7f7f7f")]
Settings(column_names, plot_type, color_schema) ==
    [ohlcv |-> [column_names |-> column_names, plot_type |-> plot_type],
     plotting |-> [color_schema |-> color_schema]]
DefaultSettings ==
    Settings(DefaultColumnNames, PyStr(lit_OHLC), DefaultColorSchema)

\* a column-name mapping given to the accessor: lower-case price labels, and
\* "VOL" for the volume
VolColumnNames ==
    [open |-> S(L_open, {}), high |-> S(L_high, {}), low |-> S(L_low, {}),
     close |-> S(L_close, {}), volume |-> S(L_vol, {1, 2, 3})]

\* the arguments of a call; fig is filled in by Plot
Args(pts, dvs, okws, vkws, oadds, vadds, lkws) ==
    [plot_type : pts, display_volume : dvs,
     ohlc_kwargs : okws, volume_kwargs : vkws,
     ohlc_add_trace_kwargs : oadds, volume_add_trace_kwargs : vadds,
     fig : {None}, layout_kwargs : lkws]

Flags == {None, PyBool(TRUE), PyBool(FALSE)}

\* a figure the caller made without plot()
CallerFigure(layout, data) ==
    [make_figure(0) EXCEPT !.layout = layout, !.data = data]

\* a trace that some other code put on the caller's figure
ForeignTrace == NewTrace(Type("go.Scatter"), [name |-> PyStr(S(L_custom, {}))])

NoCall == [status |-> "none"]

\* plot(..., fig=None) with arguments of the given set
PlotNew(arguments) == \E args \in arguments : Plot(args, FALSE)

\* plot(..., fig=fig) on the figure the caller holds
PlotOnto(arguments) == \E args \in arguments : Plot(args, TRUE)

InitWith(cfgs, accessors, figures) ==
    /\ settings \in cfgs
    /\ accessor \in accessors
    /\ fig \in figures
    /\ nfigs = 0
    /\ last = NoCall

\* column labels in title case
OpenC == S(L_open, {1})
HighC == S(L_high, {1})
LowC == S(L_low, {1})
CloseC == S(L_close, {1})
VolumeC == S(L_volume, {1})

(***************************************************************************)
(* Specification Spec: sequences of calls, on fresh figures and on the     *)
(* figure the caller holds, by accessors of a complete table, of a table   *)
(* without Volume and of one without Close, with valid and invalid plot    *)
(* types.                                                                  *)
(***************************************************************************)
CallFrames ==
    {Frame(<<OpenC, HighC, LowC, CloseC, VolumeC>>, 2),
     Frame(<<S(L_open, {}), S(L_high, {1, 2, 3, 4}), LowC, S(L_close, {2})>>, 2),
     Frame(<<OpenC, HighC, LowC, VolumeC>>, 2)}

CallAccessors == {NewAccessor(obj, None) : obj \in CallFrames}

CallArgs ==
    Args({None, PyStr(S(L_candlestick, {1, 7})), PyStr(S(L_line, {}))},
         Flags, {EmptyDict}, {EmptyDict},
         {EmptyDict}, {EmptyDict},
         {EmptyDict, [showlegend |-> PyBool(FALSE)]})

Init ==
    InitWith({DefaultSettings}, CallAccessors,
             {None, CallerFigure(EmptyDict, <<ForeignTrace>>)})

Next ==
    \/ PlotNew(CallArgs)
    \/ PlotOnto(CallArgs)

Spec == Init /\ [][Next]_vars

(***************************************************************************)
(* Specification SpecVolume: tables with and without a volume column,      *)
(* under the default and a custom column-name mapping, every               *)
(* display_volume flag.                                                    *)
(***************************************************************************)
VolumeFrames ==
    {Frame(<<OpenC, HighC, LowC, CloseC, VolumeC>>, 2),
     Frame(<<S(L_open, {}), S(L_high, {1, 2, 3, 4}), LowC, S(L_close, {2})>>, 2),
     Frame(<<S(L_date, {1}), OpenC, HighC, LowC, CloseC,
             S(L_volume, {1, 2, 3, 4, 5, 6})>>, 2),
     Frame(<<S(L_vol, {1}), CloseC, LowC, HighC, OpenC>>, 2),
     Frame(<<OpenC, HighC, LowC, VolumeC>>, 2)}

VolumeAccessors ==
    {NewAccessor(obj, cn) : obj \in VolumeFrames, cn \in {None, VolColumnNames}}

VolumeArgs ==
    Args({None, PyStr(S(L_line, {})), Type("CustomTrace")}, Flags,
         {EmptyDict}, {EmptyDict, [name |-> PyStr(S(L_custom, {1}))]},
         {EmptyDict}, {EmptyDict}, {EmptyDict})

InitVolume == InitWith({DefaultSettings}, VolumeAccessors, {None})

NextVolume == PlotNew(VolumeArgs)

SpecVolume == InitVolume /\ [][NextVolume]_vars

(***************************************************************************)
(* Specification SpecColumns: one call per table, over tables whose labels *)
(* come in every casing (also two columns that differ in case only) and    *)
(* over mappings in lower, title and upper case.                           *)
(***************************************************************************)
Casings(letters) ==
    {S(letters, {}), S(letters, {1}), S(letters, 1..Len(letters))}

RoleLetters ==
    [open |-> L_open, high |-> L_high, low |-> L_low, close |-> L_close,
     volume |-> L_volume]

LowerColumnNames == [r \in Roles |-> S(RoleLetters[r], {})]
UpperColumnNames == [r \in Roles |-> S(RoleLetters[r], 1..Len(RoleLetters[r]))]

ColumnFrames ==
    {Frame(<<o, h, l, c, v>>, 1) :
        o \in Casings(L_open), h \in Casings(L_high), l \in Casings(L_low),
        c \in Casings(L_close), v \in Casings(L_volume)}
    \cup
    {Frame(<<VolumeC, c, o1, o2, LowC, HighC>>, 1) :
        o1 \in Casings(L_open), o2 \in Casings(L_open), c \in Casings(L_close)}

ColumnAccessors ==
    {NewAccessor(obj, cn) :
        obj \in ColumnFrames, cn \in {None, LowerColumnNames, UpperColumnNames}}

ColumnArgs ==
    Args({None}, {None}, {EmptyDict}, {EmptyDict}, {EmptyDict}, {EmptyDict},
         {EmptyDict})

InitColumns == InitWith({DefaultSettings}, ColumnAccessors, {None})

NextColumns == PlotNew(ColumnArgs)

SpecColumns == InitColumns /\ [][NextColumns]_vars

(***************************************************************************)
(* Specification SpecColors: one table per behaviour, of up to MaxRows     *)
(* rows with every open and close value of 1..3, under three color         *)
(* schemas.                                                                *)
(***************************************************************************)
Prices == 1..3

ColorFrames ==
    {DataFrame(<<OpenC, HighC, LowC, CloseC, VolumeC>>,
               <<o, [i \in 1..n |-> 3], [i \in 1..n |-> 1], c,
                 [i \in 1..n |-> 10 * i]>>,
               [i \in 1..n |-> i]) :
        n \in 0..MaxRows, o \in UNION {[1..m -> Prices] : m \in 0..MaxRows},
        c \in UNION {[1..m -> Prices] : m \in 0..MaxRows}}

\* the tables among them: every column has one value per row
ColorAccessors ==
    {NewAccessor(obj, None) :
        obj \in {t \in ColorFrames :
                    \A j \in DOMAIN t.values : Len(t.values[j]) = Len(t.index)}}

ColorSchemas ==
    {DefaultColorSchema,
     [increasing |-> Color("red"), decreasing |-> Color("green"),
      gray |-> Color("blue")],
     [increasing |-> Color("black"), decreasing |-> Color("black"),
      gray |-> Color("white")]}

ColorArgs ==
    Args({None}, {None, PyBool(TRUE)}, {EmptyDict}, {EmptyDict}, {EmptyDict},
         {EmptyDict}, {EmptyDict})

InitColors ==
    InitWith({Settings(DefaultColumnNames, PyStr(lit_OHLC), cs) :
                cs \in ColorSchemas},
             ColorAccessors, {None})

NextColors == PlotNew(ColorArgs)

SpecColors == InitColors /\ [][NextColors]_vars

(***************************************************************************)
(* Specification SpecPlacement: placement options of the caller for the    *)
(* price and the volume trace, with volume shown and hidden.               *)
(***************************************************************************)
PlacementAccessors ==
    {NewAccessor(Frame(<<OpenC, HighC, LowC, CloseC, VolumeC>>, 2), None),
     NewAccessor(Frame(<<OpenC, HighC, LowC, CloseC>>, 2), None)}

PlacementArgs ==
    Args({None}, Flags, {EmptyDict}, {EmptyDict},
         {EmptyDict, [row |-> PyInt(2)],
          [col |-> PyInt(2), secondary_y |-> PyBool(TRUE)],
          [row |-> Dict([panel |-> PyInt(2)])]},
         {EmptyDict, [row |-> PyInt(1), col |-> PyInt(1)],
          [secondary_y |-> PyBool(TRUE)]},
         {EmptyDict})

InitPlacement == InitWith({DefaultSettings}, PlacementAccessors, {None})

NextPlacement == PlotNew(PlacementArgs)

SpecPlacement == InitPlacement /\ [][NextPlacement]_vars

(***************************************************************************)
(* Specification SpecLayout: layout overrides, on fresh figures and on     *)
(* figures of the caller that carry a layout of their own.                 *)
(***************************************************************************)
LayoutAccessors ==
    {NewAccessor(Frame(<<OpenC, HighC, LowC, CloseC, VolumeC>>, 2), None)}

CallerLayout ==
    [showlegend |-> PyBool(FALSE), bargap |-> PyInt(1),
     xaxis |-> Dict([rangeslider_visible |-> PyBool(TRUE),
                     showgrid |-> PyBool(FALSE)]),
     yaxis |-> Dict([showgrid |-> PyBool(FALSE)]),
     hovermode |-> PyBool(FALSE)]

LayoutArgs ==
    Args({None, PyStr(S(L_line, {}))}, {PyBool(TRUE), PyBool(FALSE)},
         {EmptyDict}, {EmptyDict}, {EmptyDict}, {EmptyDict},
         {EmptyDict,
          [showlegend |-> PyBool(FALSE)],
          [xaxis |-> Dict([showgrid |-> PyBool(FALSE)]),
           width |-> PyInt(800)],
          [bargap |-> PyInt(2),
           yaxis2 |-> Dict([showgrid |-> PyBool(FALSE)])]})

InitLayout ==
    InitWith({DefaultSettings}, LayoutAccessors,
             {None, CallerFigure(EmptyDict, <<>>),
              CallerFigure(CallerLayout, <<ForeignTrace>>)})

NextLayout ==
    \/ PlotNew(LayoutArgs)
    \/ PlotOnto(LayoutArgs)

SpecLayout == InitLayout /\ [][NextLayout]_vars

(***************************************************************************)
(* Properties of plot().  They are stated on the record of the last call:  *)
(* last.args are the arguments as passed (last.args.fig the supplied       *)
(* figure as it was before the call), last.fig the figure as the call left *)
(* it.                                                                     *)
(***************************************************************************)
Called == last.status # "none"
Returned == last.status = "returned"

\* the mapped label of the role equals, case-insensitively, a column label
Matches(self, role) ==
    \E j \in DOMAIN self.obj.columns :
        Lower(self.obj.columns[j]) = Lower(ColumnNames(self, settings)[role])

RequiredMatch(self) ==
    \A k \in DOMAIN RequiredRoles : Matches(self, RequiredRoles[k])

\* the plot type in effect: the argument, or the configured default
GivenPlotType(args) ==
    IF args.plot_type = None THEN settings.ohlcv.plot_type ELSE args.plot_type

\* a string that is neither 'ohlc' nor 'candlestick' in any casing
BadPlotType(args) ==
    /\ IsStr(GivenPlotType(args))
    /\ Lower(GivenPlotType(args).s) \notin {lit_ohlc, lit_candlestick}

\* the traces on the figure passed to the call, before the call
Before(args) == IF args.fig = None THEN <<>> ELSE args.fig.data

\* the price trace that the returning call added
PriceTrace == last.fig.data[Len(Before(last.args)) + 1]

\* the figure holds a bar trace
HasVolumeTrace(f) == \E i \in DOMAIN f.data : f.data[i].type = Type("go.Bar")

\* C4: when a required role (open, high, low, close) matches no column, the
\* call raises the missing-column error for a required role, whatever the
\* other arguments, and the step changes neither the caller's figure nor the
\* number of figures allocated.
C4_Step ==
    (last'.status # "none" /\ ~RequiredMatch(last'.self))
    => /\ last'.status = "MissingColumnError"
       /\ \E k \in DOMAIN RequiredRoles : last'.role = RequiredRoles[k]
       /\ last'.fig = last'.args.fig
       /\ fig' = fig
       /\ nfigs' = nfigs
C4_MissingColumnFirst == [][C4_Step]_vars

\* C4 witness: a call without a Close column, with an invalid plot type and
\* layout overrides, on a supplied figure that holds traces.
C4_Witness ==
    /\ last.status = "MissingColumnError"
    /\ last.role = "close"
    /\ last.args.fig # None
    /\ Len(last.args.fig.data) > 0
    /\ BadPlotType(last.args)
    /\ last.args.layout_kwargs # EmptyDict

\* C5: a plot_type string other than 'ohlc'/'candlestick' (any casing) never
\* returns; it raises the invalid-plot-type error once the required columns
\* are resolved, and the figure's traces are then exactly those before the
\* call.  A string that is 'ohlc' or 'candlestick' in some casing never
\* raises that error and gets the canonical name 'OHLC' / 'Candlestick'.
C5_InvalidPlotType ==
    Called =>
    /\ BadPlotType(last.args) =>
        /\ ~Returned
        /\ RequiredMatch(last.self) => last.status = "InvalidPlotTypeError"
        /\ last.fig # None => last.fig.data = Before(last.args)
        /\ last.args.fig # None => fig.data = last.args.fig.data
    /\ last.status = "InvalidPlotTypeError" => BadPlotType(last.args)
    /\ (Returned /\ IsStr(GivenPlotType(last.args))) =>
        LET t == PriceTrace
            canonical ==
                IF Lower(GivenPlotType(last.args).s) = lit_ohlc
                THEN lit_OHLC ELSE lit_Candlestick
        IN  /\ last.plot_type = PyStr(canonical)
            /\ "name" \notin DOMAIN last.args.ohlc_kwargs
                => t.props.name = PyStr(canonical)

\* C5 witness: the invalid-plot-type error on a supplied figure with traces.
C5_Witness ==
    /\ last.status = "InvalidPlotTypeError"
    /\ last.args.fig # None
    /\ Len(last.args.fig.data) > 0
    /\ fig.data = last.args.fig.data

\* C10: a call that returns gives back the figure it was given (a new one
\* exactly when fig is None), keeps the traces that were on it in place, and
\* appends one price trace followed, exactly when volume is shown, by one
\* volume trace.
C10_Accumulation ==
    Returned =>
    LET pre == Before(last.args)
        post == last.fig.data
        n == Len(pre)
    IN  /\ fig = last.fig
        /\ last.args.fig # None => last.fig.id = last.args.fig.id
        /\ last.created <=> last.args.fig = None
        /\ last.created => last.fig.id = nfigs
        /\ Len(post) = n + (IF last.display_volume THEN 2 ELSE 1)
        /\ SubSeq(post, 1, n) = pre
        /\ post[n + 1].type # Type("go.Bar")
        /\ post[n + 1].props.x = Array(last.self.obj.index)
        /\ last.display_volume => post[n + 2].type = Type("go.Bar")

\* C10 witness: a second call on the figure that an earlier call of plot()
\* returned, which shows volume.
C10_Witness ==
    /\ Returned
    /\ last.args.fig # None
    /\ last.args.fig.id > 0
    /\ Len(last.args.fig.data) > 0
    /\ last.display_volume
    /\ Len(fig.data) = Len(last.args.fig.data) + 2

\* C1: with an explicit display_volume flag the call completes (the
\* required columns resolving and the plot type being valid) and the returned
\* figure holds a volume trace exactly when the flag is True, whether or not
\* the mapped volume label matches a column.
C1_ExplicitFlagHonored ==
    (/\ Called
     /\ last.args.display_volume # None
     /\ RequiredMatch(last.self)
     /\ ~BadPlotType(last.args))
    => /\ Returned
       /\ HasVolumeTrace(last.fig) <=> last.args.display_volume.b

\* C2: with display_volume unset and no figure supplied the call shows volume
\* exactly when the mapped volume label equals, case-insensitively, a column
\* label; the returned figure then has two stacked panels sharing the x-axis,
\* heights 0.7:0.3, no gap, and a bar trace named 'Volume' (unless
\* volume_kwargs renames it); otherwise it has one panel and no bar trace.
C2_AutoVolume ==
    (Called /\ last.args.display_volume = None /\ last.args.fig = None) =>
    /\ last.display_volume <=> Matches(last.self, "volume")
    /\ Returned =>
        LET f == last.fig
        IN  IF Matches(last.self, "volume")
            THEN /\ f.rows = 2 /\ f.cols = 1
                 /\ f.shared_xaxes
                 /\ f.row_heights = <<7, 3>>
                 /\ f.vertical_spacing = PyInt(0)
                 /\ Len(f.data) = 2
                 /\ f.data[2].type = Type("go.Bar")
                 /\ "name" \notin DOMAIN last.args.volume_kwargs
                    => f.data[2].props.name = PyStr(lit_Volume)
            ELSE /\ f.rows = 1 /\ f.cols = 1
                 /\ ~HasVolumeTrace(f)

\* C2 witness: volume shown for a column labelled 'VOLUME' under the mapping
\* 'Volume'.
C2_Witness ==
    /\ Returned
    /\ last.args.display_volume = None
    /\ last.args.fig = None
    /\ last.self.column_names = None
    /\ \E j \in DOMAIN last.self.obj.columns :
        last.self.obj.columns[j] = S(L_volume, {1, 2, 3, 4, 5, 6})
    /\ last.fig.rows = 2
    /\ HasVolumeTrace(last.fig)

\* C7: a plot_type that is not a string is used as the trace constructor, and
\* plot() passes it no display name (the caller's ohlc_kwargs giving none).
C7_NoNameImposed ==
    (/\ Returned
     /\ ~IsStr(GivenPlotType(last.args))
     /\ "name" \notin DOMAIN last.args.ohlc_kwargs)
    => /\ PriceTrace.type = last.args.plot_type
       /\ "name" \notin DOMAIN PriceTrace.props

\* the letters of a label, its casing dropped (all in upper case)
Letters(label) ==
    [i \in DOMAIN label |->
        IF label[i] \in DOMAIN ToUpper THEN ToUpper[label[i]] ELSE label[i]]

\* the first column whose label has the given letters, in any casing
FirstWithLetters(columns, letters) ==
    CHOOSE j \in DOMAIN columns :
        /\ Letters(columns[j]) = letters
        /\ \A i \in DOMAIN columns : Letters(columns[i]) = letters => j <= i

\* the role's mapped label has the letters of some column label
LettersMatch(self, role) ==
    \E j \in DOMAIN self.obj.columns :
        Letters(self.obj.columns[j]) = Letters(ColumnNames(self, settings)[role])

\* the column whose values the trace property holds
ColumnOf(obj, series) == CHOOSE j \in DOMAIN obj.values : obj.values[j] = series.a

\* the column selected for a role by the returning call, read off the traces
Selected(role) ==
    IF role = "volume"
    THEN ColumnOf(last.self.obj,
                  last.fig.data[Len(Before(last.args)) + 2].props.y)
    ELSE ColumnOf(last.self.obj, PriceTrace.props[role])

\* C3: resolution is case-insensitive on both sides: when every role's mapped
\* label has, letter by letter, the letters of a column label, the call
\* returns with volume shown, and the column it selected for each role is the
\* first one with those letters, whatever the casing of the column labels and
\* of the mapping; its lower-cased label equals the lower-cased mapped label.
C3_CaseInsensitive ==
    (Called /\ \A r \in Roles : LettersMatch(last.self, r)) =>
    /\ Returned
    /\ last.display_volume
    /\ \A r \in Roles :
        LET mapped == ColumnNames(last.self, settings)[r]
            columns == last.self.obj.columns
        IN  /\ Selected(r) = FirstWithLetters(columns, Letters(mapped))
            /\ Lower(columns[Selected(r)]) = Lower(mapped)

\* C3 witness: an upper-case mapping resolved on a table whose first 'open'
\* column is in lower case and is followed by one in title case.
C3_Witness ==
    /\ Returned
    /\ last.self.column_names = UpperColumnNames
    /\ \E j \in DOMAIN last.self.obj.columns :
        /\ j + 1 \in DOMAIN last.self.obj.columns
        /\ last.self.obj.columns[j] = S(L_open, {})
        /\ last.self.obj.columns[j + 1] = OpenC
        /\ Selected("open") = j

\* the marker colors of the volume trace that the returning call added
MarkerColorsOf(f) == f.data[Len(f.data)].props.marker.d.color.a

CallerWins(placement, default, caller) ==
    /\ DOMAIN placement = DOMAIN default \cup DOMAIN caller
    /\ \A k \in DOMAIN caller : placement[k] = caller[k]
    /\ \A k \in DOMAIN default \ DOMAIN caller : placement[k] = default[k]

\* C8: when volume is shown the price trace is placed by the caller's
\* ohlc_add_trace_kwargs over {row: 1, col: 1} and the volume trace by the
\* caller's volume_add_trace_kwargs over {row: 2, col: 1}, the caller's keys
\* winning and the other default keys kept; when it is hidden the price
\* trace is placed by the caller's options alone.  Merging {a: 1, b: {c: 2}}
\* with {b: {d: 3}} gives {a: 1, b: {c: 2, d: 3}}.
C8_Placement ==
    /\ Returned =>
        LET n == Len(Before(last.args))
        IN  IF last.display_volume
            THEN /\ CallerWins(last.fig.data[n + 1].placement,
                               [row |-> PyInt(1), col |-> PyInt(1)],
                               last.args.ohlc_add_trace_kwargs)
                 /\ CallerWins(last.fig.data[n + 2].placement,
                               [row |-> PyInt(2), col |-> PyInt(1)],
                               last.args.volume_add_trace_kwargs)
            ELSE last.fig.data[n + 1].placement
                    = last.args.ohlc_add_trace_kwargs
    /\ merge_dicts([a |-> PyInt(1), b |-> Dict([c |-> PyInt(2)])],
                   [b |-> Dict([d |-> PyInt(3)])])
        = [a |-> PyInt(1), b |-> Dict([c |-> PyInt(2), d |-> PyInt(3)])]

\* C8 witness: volume shown, the caller naming col and secondary_y for the
\* price trace and nothing for the volume trace.
C8_Witness ==
    /\ Returned
    /\ last.display_volume
    /\ last.args.ohlc_add_trace_kwargs
        = [col |-> PyInt(2), secondary_y |-> PyBool(TRUE)]
    /\ last.args.volume_add_trace_kwargs = EmptyDict
    /\ PriceTrace.placement
        = [row |-> PyInt(1), col |-> PyInt(2), secondary_y |-> PyBool(TRUE)]
    /\ last.fig.data[Len(last.fig.data)].placement
        = [row |-> PyInt(2), col |-> PyInt(1)]

\* post is pre with the keys of the override set to the override's values,
\* key by key inside nested bags, and every other key as it was
RECURSIVE Overridden(_, _, _)
Overridden(pre, override, post) ==
    /\ DOMAIN post = DOMAIN pre \cup DOMAIN override
    /\ \A k \in DOMAIN post :
        IF k \notin DOMAIN override THEN post[k] = pre[k]
        ELSE IF k \in DOMAIN pre /\ IsDict(pre[k]) /\ IsDict(override[k])
        THEN IsDict(post[k]) /\ Overridden(pre[k].d, override[k].d, post[k].d)
        ELSE post[k] = override[k]

\* the baseline layout of a figure that plot() creates
BaselineLayout(display_volume) ==
    LET base == [showlegend |-> PyBool(TRUE),
                 xaxis |-> Dict([rangeslider_visible |-> PyBool(FALSE),
                                 showgrid |-> PyBool(TRUE)]),
                 yaxis |-> Dict([showgrid |-> PyBool(TRUE)])]
        volume == [xaxis2 |-> Dict([showgrid |-> PyBool(TRUE)]),
                   yaxis2 |-> Dict([showgrid |-> PyBool(TRUE)]),
                   bargap |-> PyInt(0)]
    IN  IF display_volume
        THEN [k \in DOMAIN base \cup DOMAIN volume |->
                IF k \in DOMAIN base THEN base[k] ELSE volume[k]]
        ELSE base

\* the call got as far as fig.update_layout(**layout_kwargs)
PastSetUp ==
    /\ Called
    /\ last.status = "MissingColumnError" => last.role = "volume"

\* C9: a call on a supplied figure changes only the layout keys named in
\* layout_kwargs, which end with the caller's values; on a fresh figure the
\* layout is the baseline (legend and x/y gridlines on, range slider off, and
\* with volume shown bargap 0 and the second axes' gridlines) with the keys
\* of layout_kwargs set to the caller's values.
C9_Layout ==
    PastSetUp =>
        IF last.args.fig # None
        THEN Overridden(last.args.fig.layout, last.args.layout_kwargs,
                        last.fig.layout)
        ELSE Overridden(BaselineLayout(last.display_volume),
                        last.args.layout_kwargs, last.fig.layout)

\* C9 witness: a call on the caller's own figure, whose legend is off and
\* whose bargap is 1, with an override of the x-axis gridlines only.
C9_Witness ==
    /\ Returned
    /\ last.args.fig # None
    /\ last.args.fig.layout = CallerLayout
    /\ last.display_volume
    /\ DOMAIN last.args.layout_kwargs = {"xaxis", "width"}
    /\ last.fig.layout.showlegend = PyBool(FALSE)
    /\ last.fig.layout.bargap = PyInt(1)
    /\ last.fig.layout.xaxis.d.rangeslider_visible = PyBool(TRUE)
    /\ last.fig.layout.xaxis.d.showgrid = PyBool(FALSE)

====
